---- MODULE Spec2Model ----
(***************************************************************************)
(* A model of Web3AnalystMCP (src/mcp-web3/src/index.ts): the five         *)
(* single-entity fetchers with their try/catch fallbacks, and the          *)
(* aggregating operations built on them.                                   *)
(*                                                                         *)
(* Strings are sequences of atoms: a letter is a one-character atom, a     *)
(* literal chunk of a template is one opaque atom, "/" is always its own   *)
(* atom.  The JavaScript values undefined and null are the sentinels       *)
(* Undefined and Null among strings, and UndefN and NullN among numbers.   *)
(* Numbers are exact rationals plus NaN and the two infinities.            *)
(* What the environment hands to one call (the HTTP response, the clock    *)
(* reading, the Math.random() draws) is one "outcome" record.              *)
(***************************************************************************)
EXTENDS Integers, Sequences, FiniteSets, TLC

VARIABLES op, args, pc, loc, seen, results, ret, calls

vars == <<op, args, pc, loc, seen, results, ret, calls>>

(***************************************************************************)
(* Bounds of the model.                                                    *)
(***************************************************************************)
MaxIdLen == 4
RandSteps == 2
MaxItems == 2
MaxBranches == 2

(***************************************************************************)
(* Program constants.                                                      *)
(***************************************************************************)
DescriptionChars == 300
SummaryChars == 200
SymbolChars == 3
CommitWeeks == 8
MockContributors == 5
SearchNewsLimit == 5
ReportNewsLimit == 10

(***************************************************************************)
(* Strings.                                                                *)
(***************************************************************************)
Undefined == <<"#undefined">>
Null == <<"#null">>

IsString(s) == s # Undefined /\ s # Null

\* The letters of the identifiers are a, b, n and their capitals; every other
\* atom has no case.
toLowerCase(s) ==
    [i \in 1..Len(s) |->
        CASE s[i] = "A" -> "a" [] s[i] = "B" -> "b" [] s[i] = "N" -> "n"
          [] OTHER -> s[i]]
toUpperCase(s) ==
    [i \in 1..Len(s) |->
        CASE s[i] = "a" -> "A" [] s[i] = "b" -> "B" [] s[i] = "n" -> "N"
          [] OTHER -> s[i]]

Min(a, b) == IF a < b THEN a ELSE b
Max(a, b) == IF a > b THEN a ELSE b

\* Array.prototype.slice(start, end) and String.prototype.slice: a negative
\* index counts from the end, both are clamped to 0..length.
SliceIndex(i, n) == IF i < 0 THEN Max(n + i, 0) ELSE Min(i, n)
slice(s, start, end) ==
    LET a == SliceIndex(start, Len(s))
        b == SliceIndex(end, Len(s))
    IN  IF b <= a THEN << >> ELSE SubSeq(s, a + 1, b)

\* String.prototype.substring(start, end): negative indices are read as 0.
substring(s, start, end) ==
    LET a == Min(Max(start, 0), Len(s))
        b == Min(Max(end, 0), Len(s))
    IN  IF a = b THEN << >> ELSE SubSeq(s, Min(a, b) + 1, Max(a, b))

\* `${v}`: undefined and null are interpolated as their names.
Interpolate(v) ==
    IF v = Undefined THEN <<"undefined">> ELSE IF v = Null THEN <<"null">> ELSE v

\* String.prototype.split('/').
RECURSIVE SplitFrom(_, _, _)
SplitFrom(s, i, cur) ==
    IF i > Len(s) THEN <<cur>>
    ELSE IF s[i] = "/" THEN <<cur>> \o SplitFrom(s, i + 1, << >>)
    ELSE SplitFrom(s, i + 1, Append(cur, s[i]))
split(s) == SplitFrom(s, 1, << >>)

(***************************************************************************)
(* Numbers.                                                                *)
(***************************************************************************)
RECURSIVE GCD(_, _)
GCD(a, b) == IF b = 0 THEN a ELSE GCD(b, a % b)
Abs(a) == IF a < 0 THEN -a ELSE a
Sign(a) == IF a < 0 THEN -1 ELSE IF a > 0 THEN 1 ELSE 0

Rat(n, d) ==
    LET g == GCD(Abs(n), Abs(d))
        s == IF d < 0 THEN -1 ELSE 1
    IN  [k |-> "num", n |-> (s * n) \div g, d |-> (s * d) \div g]
Num(n) == [k |-> "num", n |-> n, d |-> 1]
NaN == [k |-> "nan", n |-> 0, d |-> 1]
Infinity(s) == [k |-> "inf", n |-> s, d |-> 1]
UndefN == [k |-> "undef", n |-> 0, d |-> 1]
NullN == [k |-> "null", n |-> 0, d |-> 1]

\* ToNumber: undefined is NaN, null is 0.
ToNumber(x) ==
    IF x.k = "undef" THEN NaN ELSE IF x.k = "null" THEN Num(0) ELSE x

SignOf(x) == IF x.k = "inf" THEN x.n ELSE Sign(x.n)

Mul(a, b) ==
    LET x == ToNumber(a)
        y == ToNumber(b)
    IN  IF x.k = "nan" \/ y.k = "nan" THEN NaN
        ELSE IF x.k = "inf" \/ y.k = "inf"
             THEN IF SignOf(x) * SignOf(y) = 0 THEN NaN
                  ELSE Infinity(SignOf(x) * SignOf(y))
        ELSE Rat(x.n * y.n, x.d * y.d)

AddN(x, y) ==
    IF x.k = "nan" \/ y.k = "nan" THEN NaN
    ELSE IF x.k = "inf" /\ y.k = "inf"
         THEN IF x.n = y.n THEN x ELSE NaN
    ELSE IF x.k = "inf" THEN x
    ELSE IF y.k = "inf" THEN y
    ELSE Rat(x.n * y.d + y.n * x.d, x.d * y.d)
Add(a, b) == AddN(ToNumber(a), ToNumber(b))

Sub(a, b) ==
    LET y == ToNumber(b)
    IN  AddN(ToNumber(a), IF y.k = "nan" THEN NaN ELSE [y EXCEPT !.n = -y.n])

\* A division that answers 0 for a zero divisor.
DivOrZero(a, b) ==
    IF ToNumber(b).n = 0 THEN Num(0)
    ELSE Rat(ToNumber(a).n * ToNumber(b).d, ToNumber(a).d * ToNumber(b).n)

Div(a, b) ==
    LET x == ToNumber(a)
        y == ToNumber(b)
    IN  IF x.k = "nan" \/ y.k = "nan" THEN NaN
        ELSE IF x.k = "inf"
             THEN IF y.k = "inf" THEN NaN
                  ELSE Infinity(x.n * (IF y.n < 0 THEN -1 ELSE 1))
        ELSE IF y.k = "inf" THEN Num(0)
        ELSE IF y.n = 0
             THEN IF x.n = 0 THEN NaN ELSE Infinity(Sign(x.n))
        ELSE Rat(x.n * y.d, x.d * y.n)

\* Math.floor.
Floor(x) == IF x.k = "num" THEN Num(x.n \div x.d) ELSE x

\* x < 0 as the sort algorithm asks of a comparator's result (NaN is not).
IsNegative(x) == x.k # "nan" /\ SignOf(x) < 0

\* TLC's integers are 32 bits wide: the amounts of money the code writes as
\* 100000000 and more (marketCap, volume24h, totalValueLocked) are counted in
\* units of a million, so that 1000 * Million stands for 1000000000.
Million == 1

Random(r) == Rat(r, RandSteps)

(***************************************************************************)
(* Completions: what evaluating a piece of code ends in.                   *)
(***************************************************************************)
Normal(v) == [threw |-> FALSE, val |-> v]
Throw == [threw |-> TRUE, val |-> << >>]

\* A try block whose catch clause is missing: the error propagates.
NoCatch(body, handler) == body

\* try { body } catch (error) { handler }
TryCatch(body, handler) == IF body.threw THEN handler ELSE body

(***************************************************************************)
(* Upstream responses.  An outcome is what one fetch() call and the code   *)
(* around it get from the environment: net = "fail" is a transport         *)
(* failure (fetch rejects), otherwise ok is response.ok and body the       *)
(* response body.  body.kind = "text" is a body that is no JSON document,  *)
(* "null" is the JSON document null.                                       *)
(***************************************************************************)

\* The draw sequences handed to one synthetic record: all draws equal, or
\* stepping by s.
DrawSeqs(n) ==
    { [i \in 1..n |-> (r + i * s) % RandSteps] : r, s \in 0..(RandSteps - 1) }

Arr(items) == [def |-> TRUE, items |-> items]
NoArr == [def |-> FALSE, items |-> << >>]
\* items[i], 0-based: undefined outside the array.
At(items, i) == IF 0 <= i /\ i + 1 <= Len(items) THEN items[i + 1] ELSE Undefined

Outcomes(okBodies, errBodies) ==
    { [net |-> "fail", ok |-> FALSE, body |-> b] :
        b \in {CHOOSE e \in errBodies : TRUE} }
    \cup { [net |-> "resp", ok |-> TRUE, body |-> b] : b \in okBodies }
    \cup { [net |-> "resp", ok |-> FALSE, body |-> b] : b \in errBodies }

\* What the code reads from the runtime while it builds one record: the clock
\* (new Date()) and n Math.random() draws.
Envs(n) == { [now |-> t, rnd |-> r] : t \in {<<"t0">>, <<"t1">>}, r \in DrawSeqs(n) }

\* fetch() rejected, or (where the code looks at it) response.ok is false.
Rejected(out) == out.net = "fail"
NotOk(out) == out.net = "resp" /\ ~out.ok

(***************************************************************************)
(* GET /coins/{id}                                                         *)
(***************************************************************************)
RepoUrl == <<"https:", "/", "/", "github.com", "/", "o", "/", "r">>

CoinObj(name, symbol, description, categories, links) ==
    [kind |-> "obj", name |-> name, symbol |-> symbol,
     description |-> description, categories |-> categories, links |-> links]
CoinLinks(homepage, twitter, github) ==
    [def |-> TRUE, homepage |-> homepage, twitter_screen_name |-> twitter,
     repos_url |-> [def |-> TRUE, github |-> github]]
En(text) == [def |-> TRUE, en |-> text]
CoinOther(kind) ==
    [kind |-> kind, name |-> Undefined, symbol |-> Undefined,
     description |-> [def |-> FALSE, en |-> Undefined], categories |-> NoArr,
     links |-> [def |-> FALSE, homepage |-> NoArr, twitter_screen_name |-> Undefined,
                repos_url |-> [def |-> FALSE, github |-> NoArr]]]

CoinFull ==
    CoinObj(<<"N">>, <<"n">>, En(<<"d">>), Arr(<< <<"DeFi">> >>),
            CoinLinks(Arr(<< <<"site">> >>), <<"tw">>, Arr(<<RepoUrl>>)))
CoinNoGithub ==
    CoinObj(<<"N">>, <<"n">>, En(<<"d">>), Arr(<< <<"DeFi">> >>),
            CoinLinks(Arr(<< <<"site">> >>), <<"tw">>, Arr(<< >>)))
CoinSparse ==
    CoinObj(Undefined, <<"b">>, En(<< >>), Arr(<< >>),
            CoinLinks(Arr(<< >>), Null, Arr(<<RepoUrl>>)))

CoinOutcomes ==
    Outcomes(
        {CoinFull, CoinNoGithub, CoinSparse,
         CoinObj(<<"N">>, <<"n">>, En(<<"d">>), Arr(<< <<"DeFi">> >>),
                 CoinOther("obj").links),
         CoinOther("obj"), CoinOther("null"), CoinOther("text")},
        {CoinOther("text"), CoinFull})

\* A fallback record whose name carries the time of the call.
SyntheticProjectInfoDated(projectIdentifier, env) ==
    [name |-> projectIdentifier \o env.now,
     symbol |-> toUpperCase(substring(projectIdentifier, 0, SymbolChars)),
     description |-> <<"placeholder description">>,
     category |-> <<"Blockchain">>,
     websiteUrl |-> <<"https:", "/", "/">> \o toLowerCase(projectIdentifier) \o <<".io">>,
     twitterHandle |-> <<"@">> \o toLowerCase(projectIdentifier),
     githubRepo |-> <<"https:", "/", "/", "github.com", "/">>
                      \o toLowerCase(projectIdentifier) \o <<"/">>
                      \o toLowerCase(projectIdentifier),
     lastUpdated |-> env.now]

SyntheticProjectInfo(projectIdentifier, env) ==
    LET projectName == toLowerCase(projectIdentifier)
    IN  [name |-> projectIdentifier,
         symbol |-> toUpperCase(substring(projectIdentifier, 0, SymbolChars)),
         description |-> <<"placeholder description">>,
         category |-> <<"Blockchain">>,
         websiteUrl |-> <<"https:", "/", "/">> \o projectName \o <<".io">>,
         twitterHandle |-> <<"@">> \o projectName,
         githubRepo |-> <<"https:", "/", "/", "github.com", "/">>
                          \o projectName \o <<"/">> \o projectName,
         lastUpdated |-> env.now]

\* The try block of getProjectInfo.
getProjectInfoTry(projectIdentifier, out, env) ==
    LET data == out.body
    IN  IF Rejected(out) \/ NotOk(out) THEN Throw
        ELSE IF data.kind # "obj" THEN Throw
        ELSE IF ~IsString(data.symbol) THEN Throw
        ELSE IF ~data.description.def \/ ~IsString(data.description.en) THEN Throw
        ELSE IF ~data.categories.def THEN Throw
        ELSE IF ~data.links.def \/ ~data.links.homepage.def
                \/ ~data.links.repos_url.def
                \/ ~data.links.repos_url.github.def THEN Throw
        ELSE Normal(
            [name |-> data.name,
             symbol |-> toUpperCase(data.symbol),
             description |->
                 substring(data.description.en, 0, DescriptionChars) \o <<"...">>,
             \* a || b: undefined, null and "" are falsy
             category |->
                 IF At(data.categories.items, 0) \in {Undefined, Null, << >>}
                 THEN <<"Cryptocurrency">>
                 ELSE At(data.categories.items, 0),
             websiteUrl |-> At(data.links.homepage.items, 0),
             twitterHandle |-> data.links.twitter_screen_name,
             githubRepo |-> At(data.links.repos_url.github.items, 0),
             lastUpdated |-> env.now])

getProjectInfo(projectIdentifier, out, env) ==
    TryCatch(getProjectInfoTry(projectIdentifier, out, env),
             Normal(SyntheticProjectInfo(projectIdentifier, env)))

(***************************************************************************)
(* GET /coins/markets                                                      *)
(***************************************************************************)
Market(price, change, cap, volume) ==
    [def |-> TRUE, current_price |-> price,
     price_change_percentage_24h |-> change, market_cap |-> cap,
     total_volume |-> volume]
MarketList(kind, items) == [kind |-> kind, items |-> items]

MarketOutcomes ==
    Outcomes(
        {MarketList("arr", <<Market(Num(50000), Num(2), Num(900), Num(70))>>),
         MarketList("arr", <<Market(Num(3), Num(-4), Num(900), Num(10)),
                             Market(Num(9), Num(9), Num(9), Num(9))>>),
         MarketList("arr", <<Market(NullN, NullN, NullN, NullN)>>),
         MarketList("arr", <<Market(UndefN, UndefN, UndefN, UndefN)>>),
         MarketList("arr", <<[Market(UndefN, UndefN, UndefN, UndefN)
                                EXCEPT !.def = FALSE]>>),
         MarketList("arr", << >>),
         MarketList("obj", << >>),
         MarketList("null", << >>),
         MarketList("text", << >>)},
        {MarketList("text", << >>),
         MarketList("arr", <<Market(Num(50000), Num(2), Num(900), Num(70))>>)})

SyntheticPriceData(symbol, env) ==
    [symbol |-> toUpperCase(symbol),
     price |-> Add(Num(1000), Mul(Random(env.rnd[1]), Num(1000))),
     change24h |-> Sub(Mul(Random(env.rnd[2]), Num(10)), Num(5)),
     marketCap |-> Add(Num(1000 * Million), Mul(Random(env.rnd[3]), Num(1000 * Million))),
     volume24h |-> Add(Num(100 * Million), Mul(Random(env.rnd[4]), Num(100 * Million))),
     lastUpdated |-> env.now]

\* The try block of getPriceData; const [data] = ... takes the first element of
\* an array and throws on what is not iterable.
getPriceDataTry(symbol, out, env) ==
    LET json == out.body
    IN  IF Rejected(out) \/ NotOk(out) THEN Throw
        ELSE IF json.kind # "arr" THEN Throw
        ELSE IF Len(json.items) = 0 THEN Throw
        ELSE IF ~json.items[1].def THEN Throw
        ELSE LET data == json.items[1]
             IN  Normal([symbol |-> toUpperCase(symbol),
                         price |-> data.current_price,
                         change24h |-> data.price_change_percentage_24h,
                         marketCap |-> data.market_cap,
                         volume24h |-> data.total_volume,
                         lastUpdated |-> env.now])

\* getPriceData written without its catch clause.
getPriceDataUncaught(symbol, out, env) == getPriceDataTry(symbol, out, env)

getPriceData(symbol, out, env) ==
    TryCatch(getPriceDataTry(symbol, out, env), Normal(SyntheticPriceData(symbol, env)))

(***************************************************************************)
(* GET /news                                                               *)
(***************************************************************************)
Article(n, description) ==
    [def |-> TRUE, title |-> <<"title", n>>, url |-> <<"url", n>>,
     source |-> <<"src">>, published_at |-> <<"day", n>>,
     description |-> description]
Digit(i) == ToString(i)

NewsOutcomes ==
    Outcomes(
        { [kind |-> "arr", items |-> l] :
            l \in UNION { [1..n -> {Article("x", <<"text">>),
                                    Article("y", Undefined),
                                    [Article(Undefined, Undefined) EXCEPT
                                        !.def = FALSE, !.title = Undefined,
                                        !.url = Undefined, !.source = Undefined,
                                        !.published_at = Undefined]}] :
                            n \in 0..(MaxItems + 1) } }
        \cup { [kind |-> k, items |-> << >>] : k \in {"obj", "null", "text"} },
        { [kind |-> "text", items |-> << >>],
          [kind |-> "arr", items |-> <<Article("x", <<"text">>)>>] })

\* for (let i = 0; i < limit; i++) mockNews.push(...)
SyntheticNews(topic, limit, env) ==
    [n \in 1..Max(limit, 0) |->
        LET i == n - 1
        IN  [title |-> topic \o <<" Announces New Partnership">>,
             url |-> <<"https:", "/", "/", "crypto-news.io", "/">>
                       \o toLowerCase(topic) \o <<"-partnership-", Digit(i)>>,
             source |-> <<"CryptoNews">>,
             publishedAt |-> env.now \o <<"-days", Digit(i)>>,
             summary |->
                 topic \o <<" has reportedly formed a strategic partnership">>]]

\* The try block of getLatestNews: only the sliced items are mapped.
getLatestNewsTry(topic, limit, out, env) ==
    LET data == out.body
        kept == slice(data.items, 0, limit)
    IN  IF Rejected(out) \/ NotOk(out) THEN Throw
        ELSE IF data.kind # "arr" THEN Throw
        ELSE IF \E i \in 1..Len(kept) :
                    ~kept[i].def \/ ~IsString(kept[i].description) THEN Throw
        ELSE Normal([i \in 1..Len(kept) |->
                [title |-> kept[i].title,
                 url |-> kept[i].url,
                 source |-> kept[i].source,
                 publishedAt |-> kept[i].published_at,
                 summary |-> substring(kept[i].description, 0, SummaryChars)
                               \o <<"...">>]])

getLatestNews(topic, limit, out, env) ==
    TryCatch(getLatestNewsTry(topic, limit, out, env),
             Normal(SyntheticNews(topic, limit, env)))

(***************************************************************************)
(* GET {explorer}/{project}/stats                                          *)
(***************************************************************************)
Stats(kind, a, t, v, g) ==
    [kind |-> kind, active_addresses |-> a, transactions |-> t, tvl |-> v,
     gas_used |-> g]
StatsOther(kind) == Stats(kind, UndefN, UndefN, UndefN, UndefN)

StatsOutcomes ==
    Outcomes(
        {Stats("obj", Num(7), Num(8), Num(9), Num(6)),
         Stats("obj", Num(5), Num(8), NullN, UndefN),
         StatsOther("obj"), StatsOther("null"), StatsOther("text")},
        {StatsOther("text"), StatsOther("obj"),
         Stats("obj", Num(1), Num(1), Num(1), Num(1))})

SyntheticOnChainData(projectName, env) ==
    [activeAddresses24h |->
         Add(Num(50000), Floor(Mul(Random(env.rnd[1]), Num(30000)))),
     transactions24h |->
         Add(Num(500000), Floor(Mul(Random(env.rnd[2]), Num(300000)))),
     totalValueLocked |->
         Add(Num(1000 * Million), Mul(Random(env.rnd[3]), Num(9000 * Million))),
     gasUsed24h |->
         Add(Num(500000), Floor(Mul(Random(env.rnd[4]), Num(300000)))),
     lastUpdated |-> env.now]

\* The try block of getOnChainData: response.ok is never looked at.
getOnChainDataTry(projectName, out, env) ==
    LET data == out.body
    IN  IF Rejected(out) THEN Throw
        ELSE IF data.kind # "obj" THEN Throw
        ELSE Normal([activeAddresses24h |-> data.active_addresses,
                     transactions24h |-> data.transactions,
                     totalValueLocked |-> data.tvl,
                     gasUsed24h |-> data.gas_used,
                     lastUpdated |-> env.now])

getOnChainData(projectName, out, env) ==
    TryCatch(getOnChainDataTry(projectName, out, env),
             Normal(SyntheticOnChainData(projectName, env)))

(***************************************************************************)
(* GET /repos/{owner}/{repo}, .../stats/commit_activity, .../contributors  *)
(***************************************************************************)
Repo(kind, stars, forks, issues, updated) ==
    [kind |-> kind, stargazers_count |-> stars, forks_count |-> forks,
     open_issues_count |-> issues, updated_at |-> updated]
RepoOther(kind) == Repo(kind, UndefN, UndefN, UndefN, Undefined)
RepoOutcomes ==
    Outcomes(
        {Repo("obj", Num(10), Num(2), Num(3), <<"day">>),
         RepoOther("obj"), RepoOther("null"), RepoOther("text")},
        {RepoOther("text"), Repo("obj", Num(1), Num(1), Num(1), <<"day">>)})

Weeks(n) == [kind |-> "arr", items |-> [i \in 1..n |-> Num(i)]]
CommitOutcomes ==
    Outcomes(
        { Weeks(n) : n \in {0, CommitWeeks - 1, CommitWeeks, CommitWeeks + 1} }
        \cup { [kind |-> k, items |-> << >>] : k \in {"obj", "null", "text"} },
        {[kind |-> "text", items |-> << >>], Weeks(CommitWeeks)})

Contributor(i) == [def |-> TRUE, login |-> <<"dev", Digit(i)>>, contributions |-> Num(i)]
Contributors(n) == [kind |-> "arr", items |-> [i \in 1..n |-> Contributor(i)]]
ContributorOutcomes ==
    Outcomes(
        { Contributors(n) : n \in {0, 1, MockContributors, MockContributors + 1} }
        \cup { [kind |-> "arr",
                items |-> <<Contributor(1),
                            [def |-> FALSE, login |-> Undefined,
                             contributions |-> UndefN]>>] }
        \cup { [kind |-> k, items |-> << >>] : k \in {"obj", "null", "text"} },
        {[kind |-> "text", items |-> << >>], Contributors(1)})

\* A call whose failure goes unnoticed: no catch of the rejection, no
\* response.ok test, the body taken as it is.
GitHubCallUnchecked(out) == Normal(out.body)

\* One of the three calls of getGitHubActivity: fetch, the response.ok test,
\* response.json().
GitHubCall(out) ==
    IF Rejected(out) \/ NotOk(out) \/ out.body.kind = "text" THEN Throw
    ELSE Normal(out.body)

\* The return statement of the try block.
GitHubRecord(repoData, commitsData, contributorsData) ==
    IF repoData.kind # "obj" THEN Throw
    ELSE IF commitsData.kind # "arr" THEN Throw
    ELSE IF contributorsData.kind # "arr" THEN Throw
    ELSE IF \E i \in 1..Len(contributorsData.items) :
                ~contributorsData.items[i].def THEN Throw
    ELSE Normal(
        [stars |-> repoData.stargazers_count,
         forks |-> repoData.forks_count,
         openIssues |-> repoData.open_issues_count,
         lastUpdated |-> repoData.updated_at,
         weeklyCommitActivity |->
             slice(commitsData.items, -CommitWeeks, Len(commitsData.items)),
         topContributors |->
             [i \in 1..Len(contributorsData.items) |->
                 [username |-> contributorsData.items[i].login,
                  contributions |-> contributorsData.items[i].contributions]]])

SyntheticGitHubActivity(env) ==
    [stars |-> Add(Num(1000), Floor(Mul(Random(env.rnd[1]), Num(9000)))),
     forks |-> Add(Num(100), Floor(Mul(Random(env.rnd[2]), Num(900)))),
     openIssues |-> Add(Num(50), Floor(Mul(Random(env.rnd[3]), Num(100)))),
     lastUpdated |-> env.now,
     weeklyCommitActivity |->
         [i \in 1..CommitWeeks |-> Floor(Mul(Random(env.rnd[3 + i]), Num(100)))],
     topContributors |->
         [i \in 1..MockContributors |->
             [username |-> <<"developer", Digit(i - 1)>>,
              contributions |-> Num(100 - (i - 1) * 15)]]]

\* The try block of getGitHubActivity over the answers to its calls; a call is
\* issued only if the code before it did not throw.
getGitHubActivityTry(repoOwner, repoName, outs) ==
    LET repo == GitHubCall(outs[1])
        commits == GitHubCall(outs[2])
        contributors == GitHubCall(outs[3])
    IN  IF repo.threw \/ commits.threw \/ contributors.threw THEN Throw
        ELSE GitHubRecord(repo.val, commits.val, contributors.val)

getGitHubActivity(repoOwner, repoName, outs, env) ==
    TryCatch(getGitHubActivityTry(repoOwner, repoName, outs),
             Normal(SyntheticGitHubActivity(env)))

\* How many of the three calls getGitHubActivity issues.
GitHubCallsIssued(outs) ==
    IF GitHubCall(outs[1]).threw THEN 1
    ELSE IF GitHubCall(outs[2]).threw THEN 2 ELSE 3

(***************************************************************************)
(* State.  op and args are the operation called and its arguments; pc[i],  *)
(* loc[i] and seen[i] are the position, the local variables and the        *)
(* upstream outcomes received so far of asynchronous branch i (a plain     *)
(* call has the single branch 1); results is the object shared by the      *)
(* branches of searchWeb3Info; ret is what the caller's promise has        *)
(* settled to; calls logs the upstream requests in the order issued.       *)
(***************************************************************************)
Pending == [st |-> "pending", val |-> << >>]
Settle(c) ==
    IF c.threw THEN [st |-> "rejected", val |-> << >>]
    ELSE [st |-> "returned", val |-> c.val]

Request(api, path) == [api |-> api, path |-> path]

Idents == UNION { [1..n -> {"a", "B"}] : n \in 1..MaxIdLen }

(***************************************************************************)
(* The single-entity fetchers, each called on its own.                     *)
(***************************************************************************)
FetchArgs(o) ==
    CASE o = "getLatestNews" ->
            { [id |-> i, limit |-> l] :
                i \in Idents, l \in (-1)..MaxItems \cup {SearchNewsLimit} }
      [] o = "getGitHubActivity" ->
            { [owner |-> a, repo |-> b] : a, b \in {<<"o">>, <<"R">>} }
      [] OTHER -> { [id |-> i] : i \in Idents }

InitFetch ==
    /\ op \in ({"getProjectInfo", "getPriceData", "getLatestNews", "getOnChainData",
                "getGitHubActivity"})
    /\ args \in FetchArgs(op)
    /\ pc = <<"call">>
    /\ loc = << << >> >>
    /\ seen = << << >> >>
    /\ results = << >>
    /\ ret = Pending
    /\ calls = << >>

Finish(c, out, request) ==
    /\ ret' = Settle(c)
    /\ pc' = <<"done">>
    /\ seen' = <<Append(seen[1], out)>>
    /\ calls' = Append(calls, request)
    /\ UNCHANGED <<op, args, loc, results>>

FetchProjectInfo ==
    /\ op = "getProjectInfo" /\ pc[1] = "call"
    /\ \E out \in CoinOutcomes, env \in Envs(0) :
          Finish(getProjectInfo(args.id, out, env), out,
                 Request("coins", toLowerCase(args.id)))

FetchPriceData ==
    /\ op = "getPriceData" /\ pc[1] = "call"
    /\ \E out \in MarketOutcomes, env \in Envs(4) :
          Finish(getPriceData(args.id, out, env), out,
                 Request("markets", toLowerCase(args.id)))

FetchLatestNews ==
    /\ op = "getLatestNews" /\ pc[1] = "call"
    /\ \E out \in NewsOutcomes, env \in Envs(0) :
          Finish(getLatestNews(args.id, args.limit, out, env), out,
                 Request("news", toLowerCase(args.id)))

FetchOnChainData ==
    /\ op = "getOnChainData" /\ pc[1] = "call"
    /\ \E out \in StatsOutcomes, env \in Envs(4) :
          Finish(getOnChainData(args.id, out, env), out,
                 Request("stats", toLowerCase(args.id)))

\* getGitHubActivity, one await at a time.  A throw anywhere in the try block
\* goes to the catch block, which returns the synthetic record.
GitHubPath == args.owner \o <<"/">> \o args.repo
GitHubCaught(out, request) ==
    \E env \in Envs(3 + CommitWeeks) :
        Finish(TryCatch(Throw, Normal(SyntheticGitHubActivity(env))), out, request)
GitHubNext(step, out, request) ==
    /\ pc' = <<step>>
    /\ loc' = <<Append(loc[1], GitHubCall(out).val)>>
    /\ seen' = <<Append(seen[1], out)>>
    /\ calls' = Append(calls, request)
    /\ UNCHANGED <<op, args, results, ret>>

FetchGitHubRepo ==
    /\ op = "getGitHubActivity" /\ pc[1] = "call"
    /\ \E out \in RepoOutcomes :
          IF GitHubCall(out).threw
          THEN GitHubCaught(out, Request("repos", GitHubPath))
          ELSE GitHubNext("commits", out, Request("repos", GitHubPath))

FetchGitHubCommits ==
    /\ op = "getGitHubActivity" /\ pc[1] = "commits"
    /\ \E out \in CommitOutcomes :
          IF GitHubCall(out).threw
          THEN GitHubCaught(out, Request("commit_activity", GitHubPath))
          ELSE GitHubNext("contributors", out, Request("commit_activity", GitHubPath))

FetchGitHubContributors ==
    /\ op = "getGitHubActivity" /\ pc[1] = "contributors"
    /\ \E out \in ContributorOutcomes :
          IF GitHubCall(out).threw
          THEN GitHubCaught(out, Request("contributors", GitHubPath))
          ELSE \E env \in Envs(3 + CommitWeeks) :
                Finish(TryCatch(GitHubRecord(loc[1][1], loc[1][2], out.body),
                                Normal(SyntheticGitHubActivity(env))),
                       out, Request("contributors", GitHubPath))

NextFetch ==
    \/ FetchProjectInfo
    \/ FetchPriceData
    \/ FetchLatestNews
    \/ FetchOnChainData
    \/ FetchGitHubRepo
    \/ FetchGitHubCommits
    \/ FetchGitHubContributors

SpecFetch == InitFetch /\ [][NextFetch]_vars

(***************************************************************************)
(* The aggregating operations.  Their runs draw the upstream outcomes from *)
(* a few representative answers per endpoint, the clock is read as t0 and  *)
(* all Math.random() draws of one record are the least or the greatest     *)
(* draw (in the branches of compareProjects and analyzePortfolio, whose    *)
(* interleavings multiply, the least draw).                                *)
(***************************************************************************)
OkOut(b) == [net |-> "resp", ok |-> TRUE, body |-> b]
ErrOut(b) == [net |-> "resp", ok |-> FALSE, body |-> b]
FailOut(b) == [net |-> "fail", ok |-> FALSE, body |-> b]

AggEnvs(n) ==
    { [now |-> <<"t0">>, rnd |-> [i \in 1..n |-> r]] : r \in {0, RandSteps - 1} }

LeastEnvs(n) == { [now |-> <<"t0">>, rnd |-> [i \in 1..n |-> 0]] }

MarketA == MarketList("arr", <<Market(Num(50000), Num(2), Num(900), Num(70))>>)
MarketNull == MarketList("arr", <<Market(NullN, NullN, NullN, NullN)>>)
StatsA == Stats("obj", Num(7), Num(8), Num(9), Num(6))
Articles(n) == [kind |-> "arr", items |-> [i \in 1..n |-> Article(Digit(i), <<"text">>)]]

AggIdents == {<<"a", "B">>, <<"A", "b">>}

\* The continuation of an await in branch i: the awaited promise settled as c.
\* A rejection propagates out of the async function; otherwise the branch goes
\* on at `next` with the locals `locals`.
Await(i, c, out, next, locals) ==
    /\ pc' = [pc EXCEPT ![i] = IF c.threw THEN "threw" ELSE next]
    /\ loc' = [loc EXCEPT ![i] = IF c.threw THEN << >> ELSE locals]
    /\ seen' = [seen EXCEPT ![i] = Append(@, out)]

Branches == 1..Len(pc)

\* await Promise.all(promises) goes on once every promise is fulfilled, and
\* throws as soon as one is rejected.
PromiseAllSettled(p) ==
    (\E i \in 1..Len(p) : p[i] = "threw") \/ (\A i \in 1..Len(p) : p[i] = "done")
\* A join that hands the results over last branch first.
PromiseAllReversed(p, l) ==
    IF \E i \in 1..Len(p) : p[i] = "threw" THEN Throw
    ELSE Normal([i \in 1..Len(p) |-> l[Len(p) + 1 - i].result])
PromiseAll(p, l) ==
    IF \E i \in 1..Len(p) : p[i] = "threw" THEN Throw
    ELSE Normal([i \in 1..Len(p) |-> l[i].result])

(***************************************************************************)
(* generateResearchReport                                                  *)
(***************************************************************************)

\* Number.prototype.toFixed(2) of a number; on undefined and null the call
\* throws.  Halves are rounded away from zero.
toFixed2(x) ==
    IF x.k \in {"undef", "null"} THEN Throw
    ELSE IF x.k = "nan" THEN Normal(<<"NaN">>)
    ELSE IF x.k = "inf"
         THEN Normal(IF x.n < 0 THEN <<"-Infinity">> ELSE <<"Infinity">>)
    ELSE LET h == (2 * Abs(x.n) * 100 + x.d) \div (2 * x.d)
         IN  Normal((IF x.n < 0 THEN <<"-">> ELSE << >>)
                    \o <<ToString(h \div 100), ".",
                         ToString((h % 100) \div 10), ToString(h % 10)>>)

\* `${x}` of a number.
NumberText(x) ==
    CASE x.k = "undef" -> <<"undefined">>
      [] x.k = "null" -> <<"null">>
      [] x.k = "nan" -> <<"NaN">>
      [] x.k = "inf" -> IF x.n < 0 THEN <<"-Infinity">> ELSE <<"Infinity">>
      [] OTHER -> IF x.d = 1 THEN <<ToString(x.n)>>
                  ELSE <<ToString(x.n), ":", ToString(x.d)>>

\* Number.prototype.toLocaleString(); on undefined and null the call throws.
toLocaleString(x) == IF x.k \in {"undef", "null"} THEN Throw ELSE Normal(NumberText(x))

\* array.map(item => item.title).join('; ')
RECURSIVE JoinTitles(_)
JoinTitles(items) ==
    IF Len(items) = 0 THEN << >>
    ELSE IF Len(items) = 1 THEN Interpolate(items[1].title)
    ELSE Interpolate(items[1].title) \o <<"; ">> \o JoinTitles(Tail(items))

\* The owner and the repository name of generateResearchReport: the last two
\* '/'-separated parts of githubRepo.  split is called on the value as it is.
\* Owner and repository taken from the first two segments.
RepoPartsFromStart(githubRepo) ==
    Normal([repoOwner |-> split(githubRepo)[1],
            repoName |-> split(githubRepo)[Len(split(githubRepo))]])

RepoParts(githubRepo) ==
    IF ~IsString(githubRepo) THEN Throw
    ELSE LET githubUrlParts == split(githubRepo)
         IN  Normal([repoOwner |-> IF Len(githubUrlParts) >= 2
                                   THEN githubUrlParts[Len(githubUrlParts) - 1]
                                   ELSE Undefined,
                     repoName |-> githubUrlParts[Len(githubUrlParts)]])

\* The object literal `report`.
ReportRecord(projectInfo, priceData, news, onChainData, githubActivity, env) ==
    LET price == toFixed2(priceData.price)
        change == toFixed2(priceData.change24h)
        cap == toFixed2(Div(priceData.marketCap, Num(1000 * Million)))
        volume == toFixed2(Div(priceData.volume24h, Num(Million)))
        addresses == toLocaleString(onChainData.activeAddresses24h)
        transactions == toLocaleString(onChainData.transactions24h)
        name == Interpolate(projectInfo.name)
        category == Interpolate(projectInfo.category)
    IN  IF price.threw \/ change.threw \/ cap.threw \/ volume.threw
           \/ addresses.threw \/ transactions.threw THEN Throw
        ELSE Normal(
            [projectName |-> projectInfo.name,
             overview |-> name \o <<" (">> \o Interpolate(projectInfo.symbol)
                 \o <<") is a ">> \o category \o <<" project. ">>
                 \o Interpolate(projectInfo.description),
             marketAnalysis |-> <<"price $">> \o price.val \o <<" change ">>
                 \o change.val \o <<"% cap $">> \o cap.val \o <<" billion volume $">>
                 \o volume.val \o <<" million">>,
             technicalInsights |-> <<"open issues ">>
                 \o NumberText(githubActivity.openIssues) \o <<" stars ">>
                 \o NumberText(githubActivity.stars) \o <<" active addresses ">>
                 \o addresses.val \o <<" transactions ">> \o transactions.val,
             communityActivity |-> <<"news: ">> \o JoinTitles(slice(news, 0, 3))
                 \o <<" twitter ">> \o Interpolate(projectInfo.twitterHandle),
             riskFactors |-> name \o <<" faces challenges">>,
             conclusion |-> name \o <<" represents a ">>
                 \o (IF 2 * env.rnd[1] > RandSteps THEN <<"promising">>
                     ELSE <<"developing">>)
                 \o <<" project in the ">> \o category \o <<" space">>,
             generatedAt |-> env.now])

ReportInit ==
    /\ op = "generateResearchReport"
    /\ args \in { [projectName |-> n] : n \in AggIdents \cup {<<"a", "/", "B">>} }
    /\ pc = <<"info">>
    /\ loc = << << >> >>
    /\ seen = << << >> >>

ReportFail ==
    /\ ret' = Settle(Throw)
    /\ UNCHANGED <<op, args, results>>

ReportInfo ==
    /\ op = "generateResearchReport" /\ pc[1] = "info"
    /\ \E out \in {FailOut(CoinOther("text")), OkOut(CoinFull), OkOut(CoinNoGithub),
                   OkOut(CoinSparse)},
          env \in AggEnvs(0) :
          LET c == getProjectInfo(args.projectName, out, env)
          IN  /\ Await(1, c, out, "price", [projectInfo |-> c.val])
              /\ calls' = Append(calls, Request("coins", toLowerCase(args.projectName)))
              /\ IF c.threw THEN ReportFail ELSE UNCHANGED <<op, args, results, ret>>

ReportPrice ==
    /\ op = "generateResearchReport" /\ pc[1] = "price"
    /\ \E out \in {ErrOut(MarketList("text", << >>)), OkOut(MarketA),
                   OkOut(MarketNull)},
          env \in AggEnvs(4) :
          LET c == getPriceData(loc[1].projectInfo.symbol, out, env)
          IN  /\ Await(1, c, out, "news",
                       [projectInfo |-> loc[1].projectInfo, priceData |-> c.val])
              /\ calls' = Append(calls,
                     Request("markets", toLowerCase(loc[1].projectInfo.symbol)))
              /\ IF c.threw THEN ReportFail ELSE UNCHANGED <<op, args, results, ret>>

ReportNews ==
    /\ op = "generateResearchReport" /\ pc[1] = "news"
    /\ \E out \in {FailOut(Articles(0)), OkOut(Articles(1)), OkOut(Articles(4))},
          env \in AggEnvs(0) :
          LET c == getLatestNews(args.projectName, ReportNewsLimit, out, env)
          IN  /\ Await(1, c, out, "chain",
                       [projectInfo |-> loc[1].projectInfo,
                        priceData |-> loc[1].priceData, news |-> c.val])
              /\ calls' = Append(calls, Request("news", toLowerCase(args.projectName)))
              /\ IF c.threw THEN ReportFail ELSE UNCHANGED <<op, args, results, ret>>

\* await getOnChainData, then the split of githubRepo up to the call of
\* getGitHubActivity.
ReportChain ==
    /\ op = "generateResearchReport" /\ pc[1] = "chain"
    /\ \E out \in {FailOut(StatsOther("text")), OkOut(StatsA),
                   ErrOut(StatsOther("obj"))},
          env \in AggEnvs(4) :
          LET c == getOnChainData(args.projectName, out, env)
              parts == RepoParts(loc[1].projectInfo.githubRepo)
              go == IF c.threw \/ parts.threw THEN Throw ELSE Normal(parts.val)
          IN  /\ Await(1, go, out, "github",
                       [projectInfo |-> loc[1].projectInfo,
                        priceData |-> loc[1].priceData, news |-> loc[1].news,
                        onChainData |-> c.val, repoOwner |-> parts.val.repoOwner,
                        repoName |-> parts.val.repoName])
              /\ calls' = Append(calls, Request("stats", toLowerCase(args.projectName)))
              /\ IF go.threw THEN ReportFail ELSE UNCHANGED <<op, args, results, ret>>

\* await getGitHubActivity, then the report is built and returned.
ReportGitHub ==
    /\ op = "generateResearchReport" /\ pc[1] = "github"
    /\ \E outs \in {<<OkOut(Repo("obj", Num(10), Num(2), Num(3), <<"day">>)),
                      OkOut(Weeks(CommitWeeks)), OkOut(Contributors(1))>>,
                    <<ErrOut(RepoOther("text")),
                      OkOut(Weeks(CommitWeeks)), OkOut(Contributors(1))>>,
                    <<OkOut(Repo("obj", Num(10), Num(2), Num(3), <<"day">>)),
                      FailOut(Weeks(0)), OkOut(Contributors(1))>>},
          env \in AggEnvs(3 + CommitWeeks) :
          LET c == getGitHubActivity(loc[1].repoOwner, loc[1].repoName, outs, env)
              path == Interpolate(loc[1].repoOwner) \o <<"/">>
                        \o Interpolate(loc[1].repoName)
              report == IF c.threw THEN Throw
                        ELSE ReportRecord(loc[1].projectInfo, loc[1].priceData,
                                          loc[1].news, loc[1].onChainData, c.val, env)
          IN  /\ pc' = <<IF report.threw THEN "threw" ELSE "done">>
              /\ loc' = << << >> >>
              /\ seen' = <<seen[1] \o SubSeq(outs, 1, GitHubCallsIssued(outs))>>
              /\ calls' = calls \o SubSeq(<<Request("repos", path),
                                           Request("commit_activity", path),
                                           Request("contributors", path)>>,
                                         1, GitHubCallsIssued(outs))
              /\ ret' = Settle(report)
              /\ UNCHANGED <<op, args, results>>

(***************************************************************************)
(* compareProjects                                                         *)
(***************************************************************************)

Lists(S, n) == UNION { [1..k -> S] : k \in 0..n }

\* The object the map callback returns.
CompareRecord(projectInfo, priceData, onChainData) ==
    [name |-> projectInfo.name,
     symbol |-> projectInfo.symbol,
     category |-> projectInfo.category,
     price |-> priceData.price,
     change24h |-> priceData.change24h,
     marketCap |-> priceData.marketCap,
     activeAddresses |-> onChainData.activeAddresses24h,
     transactions |-> onChainData.transactions24h,
     totalValueLocked |-> onChainData.totalValueLocked]

\* The map callback run on its own: the three awaits in order, over the
\* outcomes and runtime readings of its own calls.
CompareBranch(name, outs, envs) ==
    LET projectInfo == getProjectInfo(name, outs[1], envs[1])
        priceData == getPriceData(projectInfo.val.symbol, outs[2], envs[2])
        onChainData == getOnChainData(name, outs[3], envs[3])
    IN  IF projectInfo.threw \/ priceData.threw \/ onChainData.threw THEN Throw
        ELSE Normal(CompareRecord(projectInfo.val, priceData.val, onChainData.val))

Metrics ==
    {"marketCap", "price", "change24h", "activeAddresses", "transactions",
     "totalValueLocked"}

\* The comparator (a, b) => b[metric] - a[metric].
Compare(a, b, metric) == Sub(b[metric], a[metric])

\* [...projectsData].sort(comparator): a stable sort, written as an insertion
\* sort that moves an element left past those it must precede.  A comparator
\* result of NaN is read as 0.
RECURSIVE InsertSorted(_, _, _)
InsertSorted(sorted, x, metric) ==
    IF Len(sorted) = 0 THEN <<x>>
    ELSE IF IsNegative(Compare(x, sorted[Len(sorted)], metric))
         THEN Append(InsertSorted(SubSeq(sorted, 1, Len(sorted) - 1), x, metric),
                     sorted[Len(sorted)])
         ELSE Append(sorted, x)
RECURSIVE SortFirst(_, _, _)
SortFirst(items, n, metric) ==
    IF n = 0 THEN << >>
    ELSE InsertSorted(SortFirst(items, n - 1, metric), items[n], metric)
sort(items, metric) == SortFirst(items, Len(items), metric)

\* A property key: the value converted to a string.
Key(v) == Interpolate(v)

\* sorted.forEach((project, index) => rankings[metric][project.name] = index + 1):
\* a later project of the same name overwrites the rank of an earlier one.
RankTable(sorted) ==
    [ k \in { Key(sorted[i].name) : i \in 1..Len(sorted) } |->
        CHOOSE r \in 1..Len(sorted) :
            /\ Key(sorted[r].name) = k
            /\ \A j \in 1..Len(sorted) : Key(sorted[j].name) = k => j <= r ]

CompareResult(projectsData, env) ==
    [projects |-> projectsData,
     rankings |-> [ m \in Metrics |-> RankTable(sort(projectsData, m)) ],
     comparisonDate |-> env.now]

CompareInit ==
    /\ op = "compareProjects"
    /\ args \in { [projectNames |-> l] : l \in Lists(AggIdents, MaxBranches) }
    /\ pc = [i \in 1..Len(args.projectNames) |-> "info"]
    /\ loc = [i \in 1..Len(args.projectNames) |-> << >>]
    /\ seen = [i \in 1..Len(args.projectNames) |-> << >>]

CompareInfo(i) ==
    /\ op = "compareProjects" /\ pc[i] = "info"
    /\ \E out \in {FailOut(CoinOther("text")), OkOut(CoinFull)}, env \in LeastEnvs(0) :
          LET c == getProjectInfo(args.projectNames[i], out, env)
          IN  Await(i, c, out, "price", [projectInfo |-> c.val])
    /\ UNCHANGED <<op, args, results, ret, calls>>

ComparePrice(i) ==
    /\ op = "compareProjects" /\ pc[i] = "price"
    /\ \E out \in {FailOut(MarketList("text", << >>)), OkOut(MarketA)},
          env \in LeastEnvs(4) :
          LET c == getPriceData(loc[i].projectInfo.symbol, out, env)
          IN  Await(i, c, out, "chain",
                    [projectInfo |-> loc[i].projectInfo, priceData |-> c.val])
    /\ UNCHANGED <<op, args, results, ret, calls>>

CompareChain(i) ==
    /\ op = "compareProjects" /\ pc[i] = "chain"
    /\ \E out \in {FailOut(StatsOther("text")), OkOut(StatsA),
                   ErrOut(StatsOther("obj"))},
          env \in LeastEnvs(4) :
          LET c == getOnChainData(args.projectNames[i], out, env)
          IN  Await(i, c, out, "done",
                    [result |-> CompareRecord(loc[i].projectInfo, loc[i].priceData,
                                              c.val)])
    /\ UNCHANGED <<op, args, results, ret, calls>>

\* The code after await Promise.all(projectDataPromises).
CompareJoin ==
    /\ op = "compareProjects" /\ ret = Pending
    /\ PromiseAllSettled(pc)
    /\ \E env \in AggEnvs(0) :
          LET projectsData == PromiseAll(pc, loc)
          IN  ret' = IF projectsData.threw THEN Settle(Throw)
                     ELSE Settle(Normal(CompareResult(projectsData.val, env)))
    /\ UNCHANGED <<op, args, pc, loc, seen, results, calls>>

(***************************************************************************)
(* analyzePortfolio                                                        *)
(***************************************************************************)
Assets == { [symbol |-> s, amount |-> a] : s \in AggIdents, a \in {Num(0), Num(1), Num(-1)} }

\* The object the map callback returns.
AssetRecord(asset, priceData) ==
    [symbol |-> asset.symbol,
     amount |-> asset.amount,
     price |-> priceData.price,
     value |-> Mul(asset.amount, priceData.price),
     change24h |-> priceData.change24h]

PortfolioBranch(asset, outs, envs) ==
    LET priceData == getPriceData(asset.symbol, outs[1], envs[1])
    IN  IF priceData.threw THEN Throw ELSE Normal(AssetRecord(asset, priceData.val))

\* portfolioData.reduce((sum, asset) => sum + asset.value, 0)
RECURSIVE SumValues(_, _)
SumValues(portfolioData, n) ==
    IF n = 0 THEN Num(0)
    ELSE Add(SumValues(portfolioData, n - 1), portfolioData[n].value)

\* portfolioData.reduce((sum, asset) => sum + asset.value * asset.change24h / 100, 0)
RECURSIVE SumChanges(_, _)
SumChanges(portfolioData, n) ==
    IF n = 0 THEN Num(0)
    ELSE Add(SumChanges(portfolioData, n - 1),
             Div(Mul(portfolioData[n].value, portfolioData[n].change24h), Num(100)))

PortfolioResult(portfolioData, env) ==
    LET totalValue == SumValues(portfolioData, Len(portfolioData))
        totalChange24h == SumChanges(portfolioData, Len(portfolioData))
        percentChange24h == Mul(Div(totalChange24h, totalValue), Num(100))
    IN  [assets |-> [i \in 1..Len(portfolioData) |->
                        [symbol |-> portfolioData[i].symbol,
                         amount |-> portfolioData[i].amount,
                         price |-> portfolioData[i].price,
                         value |-> portfolioData[i].value,
                         change24h |-> portfolioData[i].change24h,
                         allocation |->
                             Mul(Div(portfolioData[i].value, totalValue), Num(100))]],
         totalValue |-> totalValue,
         change24h |-> [value |-> totalChange24h, percent |-> percentChange24h],
         analysisDate |-> env.now]

PortfolioInit ==
    /\ op = "analyzePortfolio"
    /\ args \in { [assets |-> l] : l \in Lists(Assets, MaxBranches) }
    /\ pc = [i \in 1..Len(args.assets) |-> "price"]
    /\ loc = [i \in 1..Len(args.assets) |-> << >>]
    /\ seen = [i \in 1..Len(args.assets) |-> << >>]

PortfolioPrice(i) ==
    /\ op = "analyzePortfolio" /\ pc[i] = "price"
    /\ \E out \in {FailOut(MarketList("text", << >>)), OkOut(MarketA),
                   OkOut(MarketList("arr", <<Market(Num(3), Num(-4), Num(900), Num(10))>>)),
                   OkOut(MarketNull),
                   OkOut(MarketList("arr", <<Market(UndefN, UndefN, UndefN, UndefN)>>))},
          env \in LeastEnvs(4) :
          LET c == getPriceData(args.assets[i].symbol, out, env)
          IN  Await(i, c, out, "done", [result |-> AssetRecord(args.assets[i], c.val)])
    /\ UNCHANGED <<op, args, results, ret, calls>>

\* The code after await Promise.all(...).
PortfolioJoin ==
    /\ op = "analyzePortfolio" /\ ret = Pending
    /\ PromiseAllSettled(pc)
    /\ \E env \in AggEnvs(0) :
          LET portfolioData == PromiseAll(pc, loc)
          IN  ret' = IF portfolioData.threw THEN Settle(Throw)
                     ELSE Settle(Normal(PortfolioResult(portfolioData.val, env)))
    /\ UNCHANGED <<op, args, pc, loc, seen, results, calls>>

(***************************************************************************)
(* searchWeb3Info                                                          *)
(***************************************************************************)
news == <<"n", "e", "w", "s">>
github == <<"g", "i", "t", "h", "u", "b">>
twitter == <<"t", "w", "i", "t", "t", "e", "r">>

SearchRepos(n) ==
    [kind |-> "obj",
     items |-> Arr([i \in 1..n |->
                       [def |-> TRUE, name |-> <<"repo", Digit(i)>>,
                        full_name |-> <<"o/repo", Digit(i)>>, description |-> Null,
                        stargazers_count |-> Num(i),
                        html_url |-> <<"url", Digit(i)>>]])]

ListEntry(items) == [kind |-> "list", items |-> items, error |-> Undefined]
ErrorEntry(message) == [kind |-> "error", items |-> << >>, error |-> message]

\* results[key] = value
Put(object, key, value) ==
    [ k \in DOMAIN object \cup {key} |-> IF k = key THEN value ELSE object[k] ]

\* switch (source.toLowerCase())
SearchCase(source) ==
    LET s == toLowerCase(source)
    IN  IF s = news THEN "news"
        ELSE IF s = github THEN "github"
        ELSE IF s = twitter THEN "twitter" ELSE "default"

\* A branch assigning under the name as the caller spelled it.
SearchKeyAsSpelled(source) == source

\* The key a branch assigns under.
SearchKey(source) ==
    CASE SearchCase(source) = "news" -> news
      [] SearchCase(source) = "github" -> github
      [] SearchCase(source) = "twitter" -> twitter
      [] OTHER -> source

\* The try block of the github case, and its catch.
SearchGitHubTry(out) ==
    LET data == out.body
    IN  IF Rejected(out) THEN Throw
        ELSE IF data.kind # "obj" \/ ~data.items.def THEN Throw
        ELSE LET kept == slice(data.items.items, 0, 5)
             IN  IF \E i \in 1..Len(kept) : ~kept[i].def THEN Throw
                 ELSE Normal(ListEntry([i \in 1..Len(kept) |->
                         [name |-> kept[i].name,
                          fullName |-> kept[i].full_name,
                          description |-> kept[i].description,
                          stars |-> kept[i].stargazers_count,
                          url |-> kept[i].html_url]]))
SearchGitHub(out) ==
    TryCatch(SearchGitHubTry(out), Normal(ErrorEntry(<<"Failed to fetch GitHub data">>)))

SearchTwitter(query, env) ==
    ListEntry([i \in 1..5 |->
        [username |-> <<"crypto_influencer_", Digit(i - 1)>>,
         tweet |-> <<"Interesting developments about ">> \o query
                     \o <<" #blockchain #crypto #">> \o SelectSeq(query, LAMBDA c : c # " "),
         postedAt |-> env.now \o <<"-hours", Digit(i - 1)>>,
         likes |-> Floor(Mul(Random(env.rnd[2 * i - 1]), Num(1000))),
         retweets |-> Floor(Mul(Random(env.rnd[2 * i]), Num(500)))]])

\* A default case that throws instead of recording the error.
SearchDefaultThrows(source) == Throw

\* The default case of the switch.
SearchDefault(source) == Normal(ErrorEntry(<<"Unsupported source: ">> \o source))

\* What the branch of one source assigns, run on its own.
SearchBranch(query, source, outs, envs) ==
    CASE SearchCase(source) = "news" ->
            LET c == getLatestNews(query, SearchNewsLimit, outs[1], envs[1])
            IN  IF c.threw THEN Throw ELSE Normal(ListEntry(c.val))
      [] SearchCase(source) = "github" -> SearchGitHub(outs[1])
      [] SearchCase(source) = "twitter" -> Normal(SearchTwitter(query, envs[1]))
      [] OTHER -> SearchDefault(source)

IsAsync(source) == SearchCase(source) \in {"news", "github"}

SearchInit ==
    /\ op = "searchWeb3Info"
    /\ args \in { [query |-> q, sources |-> l] :
                    q \in {<<"a">>, <<"a", " ", "B">>},
                    l \in Lists({news, <<"N", "e", "w", "s">>, github, twitter,
                                 <<"b", "o", "g", "u", "s">>}, MaxBranches)
                          \cup {<<news, github, twitter>>} }
    /\ pc = [i \in 1..Len(args.sources) |-> "start"]
    /\ loc = [i \in 1..Len(args.sources) |-> << >>]
    /\ seen = [i \in 1..Len(args.sources) |-> << >>]

\* sources.map(async (source) => ...): every callback runs up to its first
\* await, in the order of the list; the twitter and default cases have no
\* await and assign at once.
RECURSIVE StartWrites(_, _, _, _)
StartWrites(object, query, sources, envs) ==
    IF Len(sources) = 0 THEN object
    ELSE LET source == sources[1]
             object1 ==
                 IF IsAsync(source) THEN object
                 ELSE Put(object, SearchKey(source),
                          SearchBranch(query, source, << >>, <<envs[1]>>).val)
         IN  StartWrites(object1, query, Tail(sources), Tail(envs))

SearchStart ==
    /\ op = "searchWeb3Info" /\ ret = Pending
    /\ Len(pc) > 0 /\ \A i \in Branches : pc[i] = "start"
    /\ \E envs \in [Branches -> AggEnvs(10)] :
          /\ results' = StartWrites(results, args.query, args.sources, envs)
          /\ loc' = [i \in Branches |->
                       IF IsAsync(args.sources[i]) THEN << >>
                       ELSE [result |-> SearchBranch(args.query, args.sources[i],
                                                     << >>, <<envs[i]>>).val]]
          /\ pc' = [i \in Branches |->
                      IF IsAsync(args.sources[i]) THEN "await"
                      ELSE IF SearchBranch(args.query, args.sources[i], << >>,
                                           <<envs[i]>>).threw THEN "threw"
                      ELSE "done"]
    /\ UNCHANGED <<op, args, seen, ret, calls>>

\* results.news = await this.getLatestNews(query, 5)
SearchNews(i) ==
    /\ op = "searchWeb3Info" /\ pc[i] = "await"
    /\ SearchCase(args.sources[i]) = "news"
    /\ \E out \in {FailOut(Articles(0)), OkOut(Articles(1)),
                   OkOut(Articles(SearchNewsLimit + 1))},
          env \in AggEnvs(0) :
          LET c == SearchBranch(args.query, args.sources[i], <<out>>, <<env>>)
          IN  /\ Await(i, c, out, "done", [result |-> c.val])
              /\ results' = IF c.threw THEN results
                            ELSE Put(results, SearchKey(args.sources[i]), c.val)
    /\ UNCHANGED <<op, args, ret, calls>>

\* the github case: results.github is assigned in the try block or in the catch
SearchGitHubDone(i) ==
    /\ op = "searchWeb3Info" /\ pc[i] = "await"
    /\ SearchCase(args.sources[i]) = "github"
    /\ \E out \in {FailOut([kind |-> "obj", items |-> NoArr]), OkOut(SearchRepos(1)),
                   OkOut(SearchRepos(SearchNewsLimit + 1)),
                   ErrOut([kind |-> "obj", items |-> NoArr])} :
          LET c == SearchBranch(args.query, args.sources[i], <<out>>, << >>)
          IN  /\ Await(i, c, out, "done", [result |-> c.val])
              /\ results' = IF c.threw THEN results
                            ELSE Put(results, SearchKey(args.sources[i]), c.val)
    /\ UNCHANGED <<op, args, ret, calls>>

SearchResult(query, sources, object, env) ==
    [query |-> query, sources |-> sources, results |-> object, searchTime |-> env.now]

\* The code after await Promise.all(searchPromises).
SearchJoin ==
    /\ op = "searchWeb3Info" /\ ret = Pending
    /\ \A i \in Branches : pc[i] # "start"
    /\ PromiseAllSettled(pc)
    /\ \E env \in AggEnvs(0) :
          LET all == PromiseAll(pc, loc)
          IN  ret' = IF all.threw THEN Settle(Throw)
                     ELSE Settle(Normal(SearchResult(args.query, args.sources,
                                                     results, env)))
    /\ UNCHANGED <<op, args, pc, loc, seen, results, calls>>

(***************************************************************************)
(* The four aggregating operations, one call each.                         *)
(***************************************************************************)
InitOps ==
    /\ results = << >>
    /\ ret = Pending
    /\ calls = << >>
    /\ (ReportInit \/ CompareInit \/ PortfolioInit \/ SearchInit)

NextOps ==
    \/ ReportInfo
    \/ ReportPrice
    \/ ReportNews
    \/ ReportChain
    \/ ReportGitHub
    \/ \E i \in Branches : CompareInfo(i)
    \/ \E i \in Branches : ComparePrice(i)
    \/ \E i \in Branches : CompareChain(i)
    \/ CompareJoin
    \/ \E i \in Branches : PortfolioPrice(i)
    \/ PortfolioJoin
    \/ SearchStart
    \/ \E i \in Branches : SearchNews(i)
    \/ \E i \in Branches : SearchGitHubDone(i)
    \/ SearchJoin

SpecOps == InitOps /\ [][NextOps]_vars

(***************************************************************************)
(* getUpcomingEvents.  A date is counted in days: Date.now() is today, and *)
(* the ISO string of a date is <<"iso", day>>, which new Date(..).getTime()*)
(* reads back.                                                             *)
(***************************************************************************)
Day == 1

conference == <<"c", "o", "n", "f", "e", "r", "e", "n", "c", "e">>
hackathon == <<"h", "a", "c", "k", "a", "t", "h", "o", "n">>

allEvents(today) ==
    LET Event(name, category, from, to) ==
            [name |-> <<name>>, category |-> category,
             startDate |-> <<"iso", today + from * Day>>,
             endDate |-> <<"iso", today + to * Day>>]
    IN  <<Event("Ethereum Developer Conference", conference, 30, 33),
          Event("DeFi Security Hackathon", hackathon, 15, 17),
          Event("Blockchain Summit Asia", conference, 45, 47),
          Event("NFT Creator Workshop", <<"workshop">>, 10, 10),
          Event("Web3 Governance Forum", conference, 60, 61),
          Event("ZK-Rollup Development Bootcamp", <<"b", "o", "o", "t", "c", "a", "m", "p">>,
                20, 25),
          Event("Crypto Regulation Roundtable", <<"roundtable">>, 40, 40)>>

getUpcomingEvents(category, limit, today) ==
    LET filteredEvents ==
            IF toLowerCase(category) = <<"a", "l", "l">> THEN allEvents(today)
            ELSE SelectSeq(allEvents(today),
                           LAMBDA event :
                               toLowerCase(event.category) = toLowerCase(category))
    IN  slice(SortSeq(filteredEvents,
                      LAMBDA a, b : a.startDate[2] - b.startDate[2] < 0),
              0, limit)

InitEvents ==
    /\ op = "getUpcomingEvents"
    /\ args \in { [category |-> c, limit |-> l] :
                    c \in {<<"a", "l", "l">>, <<"A", "l", "l">>, conference, hackathon,
                           <<"h", "A", "c", "k", "A", "t", "h", "o", "N">>,
                           <<"b", "o", "o", "t", "c", "a", "m", "p">>, <<"n", "a">>},
                    l \in (-MaxItems)..(Len(allEvents(0)) + 1) }
    /\ pc = <<"call">>
    /\ loc = << << >> >>
    /\ seen = << << >> >>
    /\ results = << >>
    /\ ret = Pending
    /\ calls = << >>

ReturnEvents ==
    /\ op = "getUpcomingEvents" /\ pc[1] = "call"
    /\ \E today \in {0, 1} :
          /\ ret' = Settle(Normal(getUpcomingEvents(args.category, args.limit, today)))
          /\ loc' = <<[today |-> today]>>
    /\ pc' = <<"done">>
    /\ UNCHANGED <<op, args, seen, results, calls>>

NextEvents == ReturnEvents

SpecEvents == InitEvents /\ [][NextEvents]_vars

(***************************************************************************)
(* The HTTP entry point.  args holds the request and the environment the   *)
(* worker was constructed with; loc[1] holds the fields the constructor    *)
(* stored and, during testApiKeys, its results object.  A request handed   *)
(* to ProxyToSelf is logged in calls under the api "ProxyToSelf", the two  *)
(* probes of testApiKeys under "ping" and "user".                          *)
(***************************************************************************)
\* A secret the empty string alone tells from a configured one.
FalsyUndefined(v) == v \in {Undefined, Null}

\* !v for a string-valued v: undefined, null and "" are falsy.
Falsy(v) == v \in {Undefined, Null, << >>}

\* The state after the constructor has stored the environment's values.
InitHttp ==
    /\ op = "fetch"
    /\ args \in { [request |-> [method |-> m, pathname |-> p, body |-> b],
                   env |-> [API_KEY_COINGECKO |-> c, API_KEY_GITHUB |-> g,
                            SHARED_SECRET |-> s]] :
                    m \in {"GET", "POST"},
                    p \in {<<"/", "test-api-keys">>, <<"/", "debug-request">>,
                           <<"/">>, <<"/", "rpc">>, <<"/", "test-api-keys", "/">>},
                    b \in {Null, <<"body">>},
                    c \in {Undefined, <<"k">>},
                    g \in {Undefined, <<"k">>},
                    s \in {Undefined, << >>, <<"s">>} }
    /\ pc = <<"call">>
    /\ loc = <<[coingeckoApiKey |-> args.env.API_KEY_COINGECKO,
                githubApiKey |-> args.env.API_KEY_GITHUB,
                sharedSecret |-> args.env.SHARED_SECRET]>>
    /\ seen = << << >> >>
    /\ results = << >>
    /\ ret = Pending
    /\ calls = << >>

\* fetch(request, env) up to its first await or its return.
HttpFetch ==
    /\ op = "fetch" /\ pc[1] = "call"
    /\ IF args.request.pathname = <<"/", "test-api-keys">>
       THEN /\ pc' = <<"ping">>
            /\ results' = [coingecko |-> [status |-> "unknown"],
                           github |-> [status |-> "unknown"]]
            /\ UNCHANGED <<ret, calls>>
       ELSE IF args.request.pathname = <<"/", "debug-request">>
       THEN /\ pc' = <<"done">>
            /\ ret' = Settle(Normal(
                   [status |-> 200,
                    body |-> [method |-> args.request.method,
                              url |-> args.request.pathname,
                              body |-> IF Falsy(args.request.body) THEN "missing"
                                       ELSE "present"]]))
            /\ UNCHANGED <<results, calls>>
       ELSE IF Falsy(loc[1].sharedSecret)
       THEN /\ pc' = <<"done">>
            /\ ret' = Settle(Normal(
                   [status |-> 500,
                    body |-> "Configuration error: Shared secret is missing"]))
            /\ UNCHANGED <<results, calls>>
       ELSE /\ pc' = <<"proxy">>
            /\ calls' = Append(calls, Request("ProxyToSelf", args.request.pathname))
            /\ UNCHANGED <<results, ret>>
    /\ UNCHANGED <<op, args, loc, seen>>

\* testApiKeys: the probe of the price API, with its own try and catch.
TestCoinGecko ==
    /\ op = "fetch" /\ pc[1] = "ping"
    /\ \E out \in Outcomes({[kind |-> "text"]}, {[kind |-> "text"]}) :
          /\ results' =
                [results EXCEPT !.coingecko =
                    [status |-> IF Rejected(out) \/ NotOk(out) THEN "error"
                                ELSE "success",
                     apiKey |-> IF Falsy(loc[1].coingeckoApiKey) THEN "missing"
                                ELSE "present"]]
          /\ seen' = <<Append(seen[1], out)>>
    /\ calls' = Append(calls, Request("ping", << >>))
    /\ pc' = <<"user">>
    /\ UNCHANGED <<op, args, loc, ret>>

\* testApiKeys: the probe of the repository API, then the response of fetch.
TestGitHub ==
    /\ op = "fetch" /\ pc[1] = "user"
    /\ \E out \in Outcomes({[kind |-> "text"]}, {[kind |-> "text"]}) :
          LET entry ==
                  [status |-> IF Rejected(out) \/ NotOk(out) THEN "error"
                              ELSE "success",
                   apiKey |-> IF Falsy(loc[1].githubApiKey) THEN "missing"
                              ELSE "present"]
          IN  /\ results' = [results EXCEPT !.github = entry]
              /\ ret' = Settle(Normal(
                     [status |-> 200,
                      body |-> [results EXCEPT !.github = entry]]))
              /\ seen' = <<Append(seen[1], out)>>
    /\ calls' = Append(calls, Request("user", << >>))
    /\ pc' = <<"done">>
    /\ UNCHANGED <<op, args, loc>>

\* The promise of new ProxyToSelf(this, {sharedSecret}).fetch(request), which
\* fetch returns without awaiting it: the library answers with a response of
\* its own or rejects.
ProxyToSelfFetch ==
    /\ op = "fetch" /\ pc[1] = "proxy"
    /\ \E c \in { Normal([status |-> n, body |-> "proxy"]) : n \in {200, 401, 404} }
                \cup {Throw} :
          ret' = Settle(c)
    /\ pc' = <<"done">>
    /\ UNCHANGED <<op, args, loc, seen, results, calls>>

NextHttp ==
    \/ HttpFetch
    \/ TestCoinGecko
    \/ TestGitHub
    \/ ProxyToSelfFetch

SpecHttp == InitHttp /\ [][NextHttp]_vars

(***************************************************************************)
(* Properties of the fetchers (checked under SpecFetch).                   *)
(***************************************************************************)
Done == pc[1] = "done"
SawFailure == \E i \in 1..Len(seen[1]) : Rejected(seen[1][i]) \/ NotOk(seen[1][i])
SawNonSuccess == \E i \in 1..Len(seen[1]) : NotOk(seen[1][i])

\* C2: whatever the upstream answers (a well-formed 2xx body, a malformed or
\* empty one, a non-2xx status, a transport failure), a fetcher's promise is
\* never rejected, and once the fetcher is done it has resolved with a record.
C2_FetcherNeverFails ==
    /\ ret.st # "rejected"
    /\ Done => ret.st = "returned"

\* C2 witness: a fetcher that met a failing upstream call has returned.
C2_Witness == Done /\ SawFailure /\ ret.st = "returned"

HasNumber(x) == x.k \notin {"undef", "null"}
IsSynthetic(o, a, v) ==
    CASE o = "getProjectInfo" ->
            \E env \in Envs(0) : v = SyntheticProjectInfo(a.id, env)
      [] o = "getPriceData" ->
            \E env \in Envs(4) : v = SyntheticPriceData(a.id, env)
      [] o = "getLatestNews" ->
            \E env \in Envs(0) : v = SyntheticNews(a.id, a.limit, env)
      [] o = "getOnChainData" ->
            \E env \in Envs(4) : v = SyntheticOnChainData(a.id, env)
      [] o = "getGitHubActivity" ->
            \E env \in Envs(3 + CommitWeeks) : v = SyntheticGitHubActivity(env)

Complete(o, v) ==
    CASE o = "getProjectInfo" ->
            /\ \A f \in {"name", "symbol", "description", "category", "websiteUrl",
                         "twitterHandle", "githubRepo", "lastUpdated"} : IsString(v[f])
            /\ v.symbol = toUpperCase(v.symbol)
      [] o = "getPriceData" ->
            /\ IsString(v.symbol) /\ v.symbol = toUpperCase(v.symbol)
            /\ \A f \in {"price", "change24h", "marketCap", "volume24h"} :
                  HasNumber(v[f])
            /\ IsString(v.lastUpdated)
      [] o = "getLatestNews" ->
            \A i \in 1..Len(v) :
                \A f \in {"title", "url", "source", "publishedAt", "summary"} :
                    IsString(v[i][f])
      [] o = "getOnChainData" ->
            /\ \A f \in {"activeAddresses24h", "transactions24h", "totalValueLocked",
                         "gasUsed24h"} : HasNumber(v[f])
            /\ IsString(v.lastUpdated)
      [] o = "getGitHubActivity" ->
            /\ \A f \in {"stars", "forks", "openIssues"} : HasNumber(v[f])
            /\ IsString(v.lastUpdated)
            /\ \A i \in 1..Len(v.topContributors) :
                  /\ IsString(v.topContributors[i].username)
                  /\ HasNumber(v.topContributors[i].contributions)

\* C3: every record a fetcher returns is structurally complete: each required
\* field is present and not null, and the symbol of a ProjectInfo or PriceData
\* is upper-cased.
C3_RecordsComplete == (Done /\ ret.st = "returned") => Complete(op, ret.val)

\* C4: when the upstream answered with a non-success status, the record the
\* fetcher returns is the synthetic one (nothing in it comes from the body of
\* that answer).
C4_NonSuccessIsSynthetic ==
    (Done /\ ret.st = "returned" /\ SawNonSuccess) => IsSynthetic(op, args, ret.val)

(***************************************************************************)
(* Properties of the aggregating operations (checked under SpecOps).       *)
(***************************************************************************)
Returned == ret.st = "returned"
Joining == op \in {"compareProjects", "analyzePortfolio", "searchWeb3Info"}

\* C1: every exposed operation resolves with a result, whatever the upstream
\* answers: the promise of generateResearchReport, compareProjects,
\* analyzePortfolio or searchWeb3Info is never rejected.
C1_OperationsNeverReject == ret.st # "rejected"

EnvChoices(n) == AggEnvs(n) \cup LeastEnvs(n)

\* What branch i can produce from the outcomes it received itself.
BranchValues(i) ==
    CASE op = "compareProjects" ->
            { CompareBranch(args.projectNames[i], seen[i], <<e0, e1, e2>>) :
                e0 \in EnvChoices(0), e1 \in EnvChoices(4), e2 \in EnvChoices(4) }
      [] op = "analyzePortfolio" ->
            { PortfolioBranch(args.assets[i], seen[i], <<e>>) : e \in EnvChoices(4) }
      [] op = "searchWeb3Info" ->
            { SearchBranch(args.query, args.sources[i], seen[i], <<e>>) :
                e \in EnvChoices(10) }

\* C5: in compareProjects, analyzePortfolio and searchWeb3Info the code after
\* the join runs only when every branch has finished, whatever the order of
\* completion; and what a finished branch produced is what that branch computes
\* from its own input and the outcomes of its own upstream calls, whether or not
\* a sibling's call failed.
C5_JoinAndIsolation ==
    Joining =>
        /\ ret.st # "pending" => \A i \in Branches : pc[i] = "done"
        /\ \A i \in Branches :
              pc[i] = "done" => Normal(loc[i].result) \in BranchValues(i)

\* C5 witness: a joined call has returned in which one branch met an upstream
\* failure and a sibling did not.
C5_Witness ==
    /\ Joining /\ Returned
    /\ \E i, j \in Branches :
          /\ i # j
          /\ Len(seen[i]) > 0 /\ Len(seen[j]) > 0
          /\ \E n \in 1..Len(seen[i]) : Rejected(seen[i][n])
          /\ \A n \in 1..Len(seen[j]) : ~Rejected(seen[j][n]) /\ ~NotOk(seen[j][n])

\* The results object had the branches completed in the order of the list.
RECURSIVE WritesInOrder(_, _)
WritesInOrder(object, n) ==
    IF n = 0 THEN object
    ELSE Put(WritesInOrder(object, n - 1), SearchKey(args.sources[n]), loc[n].result)

\* C6: the branches share no mutable state, so what searchWeb3Info returns does
\* not depend on the order in which its branches complete: it is what completion
\* in list order gives.
C6_OrderIndependent ==
    (op = "searchWeb3Info" /\ Returned) =>
        ret.val.results = WritesInOrder(<< >>, Len(args.sources))

Greater(x, y) == IsNegative(Sub(y, x))
SameNumber(x, y) == Sub(x, y) = Num(0)
RankOf(project, metric) == ret.val.rankings[metric][Key(project.name)]

\* C7: for each of the six metrics the ranks follow the metric: a project with
\* a greater value has a smaller rank, and of two projects with equal values the
\* one earlier in the input has the smaller rank.
C7_RanksFollowMetric ==
    (op = "compareProjects" /\ Returned) =>
        \A m \in Metrics :
            \A i, j \in 1..Len(ret.val.projects) :
                LET a == ret.val.projects[i]
                    b == ret.val.projects[j]
                IN  /\ Greater(a[m], b[m]) => RankOf(a, m) < RankOf(b, m)
                    /\ (SameNumber(a[m], b[m]) /\ i < j) => RankOf(a, m) < RankOf(b, m)

Recognized(source) == toLowerCase(source) \in {news, github, twitter}
Requested == { args.sources[i] : i \in Branches }

\* C8: an unrecognized source never fails searchWeb3Info: the call returns,
\* each name that is not news, github or twitter has the entry
\* {error: "Unsupported source: <name>"} under that name, and the entry of a
\* recognized source is one assigned by a branch of that source.
C8_UnsupportedSource ==
    (op = "searchWeb3Info" /\ ret.st # "pending") =>
        /\ Returned
        /\ \A s \in Requested :
              ~Recognized(s) =>
                  /\ s \in DOMAIN ret.val.results
                  /\ ret.val.results[s] = ErrorEntry(<<"Unsupported source: ">> \o s)
        /\ \A k \in {news, github, twitter} :
              IF \E s \in Requested : toLowerCase(s) = k
              THEN /\ k \in DOMAIN ret.val.results
                   /\ \E i \in Branches :
                         /\ toLowerCase(args.sources[i]) = k
                         /\ ret.val.results[k] = loc[i].result
              ELSE k \notin DOMAIN ret.val.results

\* C8 witness: a call naming an unrecognized source beside the news source,
\* whose upstream call succeeded, has returned.
C8_Witness ==
    /\ op = "searchWeb3Info" /\ Returned
    /\ \E i, j \in Branches :
          /\ ~Recognized(args.sources[i])
          /\ args.sources[j] = news
          /\ seen[j] = <<OkOut(Articles(1))>>

\* C9 as stated: results has an entry under every requested name as the caller
\* spelled it, and no other key.
C9_KeyedAsSpelled ==
    (op = "searchWeb3Info" /\ Returned) => DOMAIN ret.val.results = Requested

\* C9 as amended: results has an entry for every requested name, under the
\* lower-case name for news, github and twitter in any letter case and under the
\* name as spelled for any other, and no other key.
C9_KeyedByCase ==
    (op = "searchWeb3Info" /\ Returned) =>
        DOMAIN ret.val.results =
            { IF Recognized(s) THEN toLowerCase(s) ELSE s : s \in Requested }

\* C9 witness: a call that named a recognized source in another letter case
\* has returned.
C9_Witness ==
    /\ op = "searchWeb3Info" /\ Returned
    /\ \E s \in Requested : Recognized(s) /\ s # toLowerCase(s)

RECURSIVE SumField(_, _, _)
SumField(terms, n, field) ==
    IF n = 0 THEN Num(0) ELSE Add(SumField(terms, n - 1, field), terms[n][field])

\* C10: whenever totalValue is not zero, each value is amount x price,
\* totalValue is the sum of the values, the 24h change is the sum of
\* value x change24h / 100, each allocation is value / totalValue x 100, a
\* single asset has allocation 100 and the allocations sum to 100.
C10_PortfolioFormulas ==
    (op = "analyzePortfolio" /\ Returned /\ ret.val.totalValue # Num(0)) =>
        LET r == ret.val
            n == Len(r.assets)
            changes == [i \in 1..n |->
                          [change |-> Div(Mul(r.assets[i].value, r.assets[i].change24h),
                                          Num(100))]]
        IN  /\ n = Len(args.assets)
            /\ \A i \in 1..n :
                  /\ r.assets[i].value = Mul(args.assets[i].amount, r.assets[i].price)
                  /\ r.assets[i].allocation
                        = Mul(Div(r.assets[i].value, r.totalValue), Num(100))
            /\ r.totalValue = SumField(r.assets, n, "value")
            /\ r.change24h.value = SumField(changes, n, "change")
            /\ n = 1 => r.assets[1].allocation = Num(100)
            /\ SumField(r.assets, n, "allocation") = Num(100)

NotANumber(x) == x.k \in {"nan", "inf", "undef"}

\* C11: when totalValue is 0, analyzePortfolio still returns: the 24h percent
\* change and every allocation are NaN, an infinity or undefined, never a
\* number, while totalValue and every value are numbers; and a call whose
\* branches have all finished is never rejected.
C11_ZeroTotal ==
    op = "analyzePortfolio" =>
        /\ ret.st # "rejected"
        /\ (Returned /\ ret.val.totalValue = Num(0)) =>
              /\ NotANumber(ret.val.change24h.percent)
              /\ Len(ret.val.assets) = Len(args.assets)
              /\ \A i \in 1..Len(ret.val.assets) :
                    /\ NotANumber(ret.val.assets[i].allocation)
                    /\ ret.val.assets[i].value.k = "num"

\* C11 witness: a portfolio of two assets whose values are not zero and cancel
\* out has been analysed.
C11_Witness ==
    /\ op = "analyzePortfolio" /\ Returned
    /\ ret.val.totalValue = Num(0)
    /\ Len(ret.val.assets) = 2
    /\ ret.val.assets[1].value # Num(0)

\* The requests an action issues.
Issued == { calls'[k] : k \in (Len(calls) + 1)..Len(calls') }

\* The ProjectInfo fetch of the report has resolved, to the record held in the
\* local variable projectInfo.
InfoResolved ==
    /\ pc[1] # "info" /\ Len(seen[1]) >= 1
    /\ "projectInfo" \in DOMAIN loc[1]
    /\ \E env \in EnvChoices(0) :
          loc[1].projectInfo = getProjectInfo(args.projectName, seen[1][1], env).val

Matching(category, today) ==
    { e \in { allEvents(today)[i] : i \in 1..Len(allEvents(today)) } :
        \/ toLowerCase(category) = <<"a", "l", "l">>
        \/ toLowerCase(e.category) = toLowerCase(category) }

\* C13: getUpcomingEvents returns the first `limit` events of the catalog
\* filtered by category and sorted by start date: every returned event is one
\* the category asks for, the result ascends by start date, it has at most
\* `limit` events (none for a limit below 0), and no matching event left out
\* starts before a returned one.
C13_FirstLimitEvents ==
    (op = "getUpcomingEvents" /\ Returned) =>
        LET r == ret.val
            matching == Matching(args.category, loc[1].today)
        IN  /\ \A i \in 1..Len(r) : r[i] \in matching
            /\ \A i, j \in 1..Len(r) :
                  i < j => r[i].startDate[2] <= r[j].startDate[2]
            /\ Len(r) <= Max(args.limit, 0)
            /\ \A e \in matching :
                  (\A i \in 1..Len(r) : r[i] # e) =>
                      \A i \in 1..Len(r) : r[i].startDate[2] <= e.startDate[2]

\* C14: every record getGitHubActivity returns has exactly CommitWeeks weeks
\* of commit activity and at most MockContributors top contributors.
C14_ActivityLengths ==
    (op = "getGitHubActivity" /\ Done /\ ret.st = "returned") =>
        /\ Len(ret.val.weeklyCommitActivity) = CommitWeeks
        /\ Len(ret.val.topContributors) <= MockContributors

Undated(record) == [record EXCEPT !.lastUpdated = << >>]
EndsWith(s, t) == Len(s) >= Len(t) /\ SubSeq(s, Len(s) - Len(t) + 1, Len(s)) = t

\* A failed getProjectInfo call has returned; any other failed call with the
\* same identifier returns the same record but for lastUpdated, and the symbol
\* is the first three characters of the identifier, upper-cased.
SyntheticIsDetermined ==
    /\ \A out \in CoinOutcomes, env \in Envs(0) :
          (Rejected(out) \/ NotOk(out)) =>
              Undated(getProjectInfo(args.id, out, env).val) = Undated(ret.val)
    /\ ret.val.symbol
          = toUpperCase(SubSeq(args.id, 1, Min(SymbolChars, Len(args.id))))

FailedProjectInfo == op = "getProjectInfo" /\ Done /\ SawFailure /\ ret.st = "returned"

\* C15 as stated: the synthetic ProjectInfo is a function of the identifier of
\* the failed call (only lastUpdated may differ between two such calls), its
\* symbol is the first three characters upper-cased, and its websiteUrl is the
\* identifier followed by the domain suffix.
C15_WebsiteOfIdentifier ==
    FailedProjectInfo =>
        /\ SyntheticIsDetermined
        /\ EndsWith(ret.val.websiteUrl, args.id \o <<".io">>)

\* C15 as amended: the same, with websiteUrl being "https://", the lower-cased
\* identifier and the suffix ".io".
C15_WebsiteOfLowerCased ==
    FailedProjectInfo =>
        /\ SyntheticIsDetermined
        /\ ret.val.websiteUrl
              = <<"https:", "/", "/">> \o toLowerCase(args.id) \o <<".io">>

\* C15 witness: a failed call for an identifier of more than three characters,
\* one of them a capital, has returned.
C15_Witness ==
    /\ FailedProjectInfo
    /\ Len(args.id) > SymbolChars
    /\ args.id # toLowerCase(args.id)

\* C16: getLatestNews(topic, limit) never returns more than limit items (no
\* item at all for a limit below one), on the upstream path and on the
\* synthetic path alike.
C16_AtMostLimitNews ==
    (op = "getLatestNews" /\ Done /\ ret.st = "returned") =>
        Len(ret.val) <= Max(args.limit, 0)

\* C17: the rank table of compareProjects is full: for each of the six metrics
\* rankings[metric] has one entry per returned project and the ranks are
\* exactly the numbers 1..n.
C17_RankTableFull ==
    (op = "compareProjects" /\ Returned) =>
        \A m \in Metrics :
            LET table == ret.val.rankings[m]
                n == Len(ret.val.projects)
            IN  /\ Cardinality(DOMAIN table) = n
                /\ { table[k] : k \in DOMAIN table } = 1..n

\* The fields of a returned asset that the map callback produced.
AssetOf(entry) ==
    [symbol |-> entry.symbol, amount |-> entry.amount, price |-> entry.price,
     value |-> entry.value, change24h |-> entry.change24h]

\* C18: fan-in preserves input order: whatever the order in which the branches
\* completed, the projects of compareProjects and the assets of
\* analyzePortfolio hold one record per input element, the i-th being the one
\* branch i produced from the i-th input element.
C18_FanInKeepsOrder ==
    /\ (op = "compareProjects" /\ Returned) =>
          /\ Len(ret.val.projects) = Len(args.projectNames)
          /\ \A i \in 1..Len(args.projectNames) :
                /\ ret.val.projects[i] = loc[i].result
                /\ Normal(ret.val.projects[i]) \in BranchValues(i)
    /\ (op = "analyzePortfolio" /\ Returned) =>
          /\ Len(ret.val.assets) = Len(args.assets)
          /\ \A i \in 1..Len(args.assets) :
                /\ AssetOf(ret.val.assets[i]) = loc[i].result
                /\ Normal(AssetOf(ret.val.assets[i])) \in BranchValues(i)
                /\ ret.val.assets[i].symbol = args.assets[i].symbol
                /\ ret.val.assets[i].amount = args.assets[i].amount

\* C18 witness: compareProjects has returned for a list that names the same
\* project twice, the two branches having met different upstream answers, so
\* that the two records differ.
C18_Witness ==
    /\ op = "compareProjects" /\ Returned
    /\ Len(args.projectNames) = MaxBranches
    /\ args.projectNames[1] = args.projectNames[2]
    /\ ret.val.projects[1] # ret.val.projects[2]

\* The three requests of getGitHubActivity in the order of the source.
GitHubRequests ==
    <<Request("repos", GitHubPath), Request("commit_activity", GitHubPath),
      Request("contributors", GitHubPath)>>

\* The upstream call failed: fetch rejected, the status was not 2xx, or the
\* body was no JSON document.
CallFailed(out) == Rejected(out) \/ NotOk(out) \/ out.body.kind = "text"

\* C19: getGitHubActivity is all-or-nothing: the calls issued so far are a
\* prefix of repository metadata, commit activity, contributors; only the last
\* call issued can have failed; and once the call is done the record is
\* entirely synthetic if a call failed, and otherwise either entirely
\* synthetic or built entirely from the three responses.
C19_AllOrNothing ==
    op = "getGitHubActivity" =>
        /\ Len(calls) <= 3 /\ Len(calls) = Len(seen[1])
        /\ calls = SubSeq(GitHubRequests, 1, Len(calls))
        /\ \A k \in 1..(Len(calls) - 1) : ~CallFailed(seen[1][k])
        /\ Done =>
              /\ ret.st = "returned"
              /\ (\E k \in 1..Len(seen[1]) : CallFailed(seen[1][k])) =>
                    IsSynthetic(op, args, ret.val)
              /\ \/ IsSynthetic(op, args, ret.val)
                 \/ /\ Len(seen[1]) = 3
                    /\ Normal(ret.val)
                          = GitHubRecord(seen[1][1].body, seen[1][2].body,
                                         seen[1][3].body)

\* C19 witness: the call is done after the repository call succeeded and the
\* commit-activity call failed; the contributors call was never issued.
C19_Witness ==
    /\ op = "getGitHubActivity" /\ Done
    /\ Len(calls) = 2
    /\ ~CallFailed(seen[1][1]) /\ CallFailed(seen[1][2])

Diagnostic == args.request.pathname \in {<<"/", "test-api-keys">>, <<"/", "debug-request">>}
Dispatched == \E k \in 1..Len(calls) : calls[k].api = "ProxyToSelf"
Configured == IsString(args.env.SHARED_SECRET) /\ Len(args.env.SHARED_SECRET) > 0

\* C20: the HTTP entry point gates dispatch on the shared secret: a request to
\* a path other than /test-api-keys and /debug-request is handed to
\* ProxyToSelf only when a shared secret is configured, and otherwise is
\* answered with status 500 without anything being called; a request to one
\* of the two diagnostic paths is answered and never handed to ProxyToSelf.
C20_SecretGatesDispatch ==
    op = "fetch" =>
        /\ Dispatched => (~Diagnostic /\ Configured)
        /\ (~Diagnostic /\ ~Configured /\ pc[1] = "done") =>
              /\ Returned /\ ret.val.status = 500
              /\ calls = << >>
        /\ (~Diagnostic /\ Configured /\ pc[1] = "done") => Dispatched
        /\ (Diagnostic /\ pc[1] = "done") => (Returned /\ ret.val.status = 200)

\* C20 witness: a request to an ordinary path has been answered with 500 by a
\* worker whose shared secret is the empty string.
C20_Witness ==
    /\ op = "fetch" /\ pc[1] = "done"
    /\ ~Diagnostic
    /\ args.env.SHARED_SECRET = << >>
    /\ Returned /\ ret.val.status = 500

====
